---------------------------- MODULE Spec2Model ----------------------------
(***************************************************************************)
(* The channel-backed response stream of src/chan.go: one chanStream       *)
(* shared by the emitter half (Emit, SetLength, Close, CloseWithError,     *)
(* run by producer goroutines) and the response half (Next, Length,        *)
(* Error, run by the consumer goroutine), together with the invocation's   *)
(* cancellation context.                                                   *)
(*                                                                         *)
(* Granularity.  A goroutine's step is one access to state another         *)
(* goroutine can observe.  The mutex wl, the channels ch, waitLen and      *)
(* closeCh and the fields read without the mutex (err, length) are such    *)
(* state; consecutive statements that touch only local state are merged    *)
(* into the step before them.  A call begins with its Lock(): what it does *)
(* before holding wl is local, so the step that takes wl is the call's     *)
(* first step, and a call that waits for wl is a disabled action.          *)
(* closeWithError is kept statement by statement, because the consumer can *)
(* run between any two of them.                                            *)
(*                                                                         *)
(* Go's select.  A goroutine entering a select takes one of the cases      *)
(* that can proceed, chosen at random, and parks when none can.  A parked  *)
(* goroutine is completed by the goroutine that makes one of its cases     *)
(* ready (the peer of the rendezvous, close(ch), or the cancellation of    *)
(* the context), and is committed to that case from then on.               *)
(*                                                                         *)
(* A panic is not recovered anywhere in src/: it runs the deferred Unlock  *)
(* and then ends the program (crashed # "no").                             *)
(***************************************************************************)
EXTENDS Naturals, Sequences, FiniteSets, TLC

\* Bounds of the model (not program constants).
MaxCalls == 3
MaxReads == 3
MaxChunks == 2
MaxArgs == 3

Producers == {1, 2}
NoHolder == 0

(***************************************************************************)
(* Values.                                                                 *)
(***************************************************************************)
\* The nil interface value / nil *cmdkit.Error.
NilErr == [kind |-> "nil", msg |-> "", code |-> "-"]
\* io.EOF
EOF == [kind |-> "io.EOF", msg |-> "EOF", code |-> "-"]
\* an unstructured error, errors.New("an error occurred")
PlainErr == [kind |-> "errorString", msg |-> "an error occurred", code |-> "-"]
\* a cmdkit.Error passed by value, and a *cmdkit.Error
StructErr == [kind |-> "cmdkit.Error", msg |-> "bad argument", code |-> "ErrClient"]
StructPtrErr == [kind |-> "*cmdkit.Error", msg |-> "not found", code |-> "ErrNotFound"]
\* ctx.Err() of a cancelled context
CtxErr == [kind |-> "context", msg |-> "context canceled", code |-> "-"]
ErrClosedEmitter == [kind |-> "errorString", msg |-> "cmds: emit on closed emitter", code |-> "-"]
ErrClosingClosedEmitter == [kind |-> "errorString", msg |-> "cmds: closing closed emitter", code |-> "-"]
\* the return slot of a call that has not returned
Pending == [kind |-> "pending", msg |-> "", code |-> "-"]

\* The non-nil errors a command passes to CloseWithError (Close passes nil).
CloseErrors == {EOF, PlainErr, StructErr, StructPtrErr}

\* Values given to Emit: plain values, a Single marker, a raw error value.
NoValue == [kind |-> "nil", v |-> "-"]
PlainValues == {[kind |-> "value", v |-> "a"], [kind |-> "value", v |-> "b"]}
SingleValues == {[kind |-> "Single", v |-> "s"]}
ErrorValues == {[kind |-> "error", v |-> "an error occurred"]}
EmitValues == PlainValues \cup SingleValues \cup ErrorValues

Lengths == {1, 2}

\* HTTP: no status line written yet; no trailer sent yet.
NoStatus == "unset"
NoTrailer == [sent |-> FALSE, msg |-> "", code |-> "-"]
NoHandler == [emits |-> <<>>, ret |-> NilErr]

\* HTTP: the values the test commands emit, and the two commands of
\* cmdRoot that fail: "error" before any Emit, "lateerror" after one.
HValues == {[kind |-> "value", v |-> "some value"], [kind |-> "value", v |-> "hello"]}
ErrorHandler == [emits |-> <<>>, ret |-> PlainErr]
LateErrorHandler ==
  [emits |-> << [kind |-> "value", v |-> "some value"] >>, ret |-> PlainErr]

\* The sequences over S of length at most n.
SeqsUpTo(S, n) == UNION {[1..k -> S] : k \in 0..n}

\* A Run function: the values it emits, in order, and the error it returns
\* (nil, an unstructured error, a cmdkit.Error or *cmdkit.Error).
Handlers ==
  [emits : SeqsUpTo(HValues, MaxChunks), ret : {NilErr, PlainErr, StructErr, StructPtrErr}]

(***************************************************************************)
(* The adder example (simpleAdd).  A string is the sequence of its          *)
(* characters, so that Atoi reads it digit by digit.                        *)
(***************************************************************************)
DigitValue ==
  [c \in {"0", "1", "2", "3", "4", "5", "6", "7", "8", "9"} |->
     CASE c = "0" -> 0 [] c = "1" -> 1 [] c = "2" -> 2 [] c = "3" -> 3
       [] c = "4" -> 4 [] c = "5" -> 5 [] c = "6" -> 6 [] c = "7" -> 7
       [] c = "8" -> 8 [] c = "9" -> 9]

\* The summands a request carries: "3", "2", "12", and "x", which is not a
\* number.
ArgStrings == { <<"3">>, <<"2">>, <<"1", "2">>, <<"x">> }
ArgLists == SeqsUpTo(ArgStrings, MaxArgs)

\* The error strconv.Atoi returns.
NumError == [kind |-> "*strconv.NumError", msg |-> "strconv.Atoi: invalid syntax", code |-> "-"]

\* strconv.Atoi on an unsigned decimal: the digits from the left, each
\* times ten; an empty string or any other character is an error.
RECURSIVE AtoiFrom(_, _, _)
AtoiFrom(str, k, acc) ==
  IF k > Len(str) THEN [n |-> acc, err |-> NilErr]
  ELSE IF str[k] \notin DOMAIN DigitValue THEN [n |-> 0, err |-> NumError]
  ELSE AtoiFrom(str, k + 1, 10 * acc + DigitValue[str[k]])

Atoi(str) ==
  IF str = <<>> THEN [n |-> 0, err |-> NumError] ELSE AtoiFrom(str, 1, 0)

\* Mutant: the arguments of Sprintf are in the wrong order.
IntermediateResult_Swapped(sum, left) ==
  [kind |-> "value",
   v |-> "intermediate result: " \o ToString(left) \o "; " \o ToString(sum) \o " left"]

\* fmt.Sprintf("intermediate result: %d; %d left", sum, left)
IntermediateResult(sum, left) ==
  [kind |-> "value",
   v |-> "intermediate result: " \o ToString(sum) \o "; " \o ToString(left) \o " left"]

\* fmt.Sprintf("total: %d", sum)
Total(sum) == [kind |-> "value", v |-> "total: " \o ToString(sum)]

\* simpleAdd's Run on req.Arguments = args, every Emit returning nil: the
\* loop emits an intermediate result for each argument (i is the Go index
\* plus one) and returns the error of an Atoi that fails; after the loop
\* the total is emitted.
RECURSIVE SimpleAddLoop(_, _, _, _)
SimpleAddLoop(args, i, sum, out) ==
  IF i > Len(args)
  THEN [emits |-> Append(out, Total(sum)), ret |-> NilErr]
  ELSE LET num == Atoi(args[i])
       IN  IF num.err # NilErr
           THEN [emits |-> out, ret |-> num.err]
           ELSE SimpleAddLoop(args, i + 1, sum + num.n,
                   Append(out, IntermediateResult(sum + num.n, Len(args) - i)))

SimpleAdd(args) == SimpleAddLoop(args, 1, 0, <<>>)

\* HTTP status codes: 200, and those of a response that is not streamed.
StatusOK == "200"
EarlyFailureStatuses == {"400", "403", "404", "500"}

VARIABLES
  ctx,        \* req.Context: "nil", "live" or "cancelled"
  ch,         \* the value channel: "open" or "closed" (it is unbuffered)
  wl,         \* holder of the mutex, NoHolder when free
  closed,     \* chanStream.closed
  closeCh,    \* "open" or "closed"
  err,        \* chanStream.err
  waitLen,    \* "open" or "closed"
  length,     \* chanStream.length
  pc,         \* per producer: its position
  op,         \* per producer: the method it is running ("none" when idle)
  arg,        \* per producer: that call's argument
  last,       \* the producer call that returned last: its method and result
  cpc,        \* the consumer's position
  nexts,      \* the results of the Next calls that returned, in order
  lengths,    \* the values the Length calls returned
  lastError,  \* the last Error() call: its result and what had happened by then
  sent,       \* history: the values handed over on ch, in order
  emitted,    \* history: the values of the Emit calls that returned nil
  closeArg,   \* history: the error of the close that took effect
  closeDone,  \* history: that close has returned
  started,    \* history: an Emit or a close has begun its critical section
  declared,   \* history: the last SetLength before that
  chCloses,   \* history: executions of close(re.ch)
  errWrites,  \* history: writes of re.err, and whether one was made without wl
  crashed,    \* "no", or the panic that ended the program
  calls,      \* producer calls made
  ccalls,     \* consumer calls made
  hstate,     \* HTTP: the request's state on the server
  handler,    \* HTTP: the command's Run function: its Emits and its result
  hpos,       \* HTTP: the Emit calls the handler has made
  status,     \* HTTP: the response's status code, NoStatus until written
  trailerDeclared, \* HTTP: the response headers announce the error trailer
  body,       \* HTTP: the chunks written to the response body, in order
  trailer,    \* HTTP: the error trailer, NoTrailer until the body has ended
  cnexts      \* HTTP: the results of the client's Next calls, in order

stream == <<ctx, ch, wl, closed, closeCh, err, waitLen, length>>
prod == <<pc, op, arg, last>>
cons == <<cpc, nexts, lengths, lastError>>
hist == <<sent, emitted, closeArg, closeDone, started, declared, chCloses, errWrites>>
wire == <<hstate, handler, hpos, status, trailerDeclared, body, trailer, cnexts>>
inproc == <<stream, prod, cons, hist, crashed, calls, ccalls>>
vars == <<inproc, wire>>

\* The HTTP transport is not in use.
NoWire ==
  /\ hstate = "None" /\ handler = NoHandler /\ hpos = 0
  /\ status = NoStatus /\ trailerDeclared = FALSE
  /\ body = <<>> /\ trailer = NoTrailer /\ cnexts = <<>>

\* NewChanResponsePair: all three channels open, nothing set.
ChanInit ==
  /\ ctx \in {"nil", "live"}
  /\ ch = "open" /\ closeCh = "open" /\ waitLen = "open"
  /\ wl = NoHolder /\ closed = FALSE /\ err = NilErr /\ length = 0
  /\ pc = [p \in Producers |-> "idle"]
  /\ op = [p \in Producers |-> "none"]
  /\ arg = [p \in Producers |-> NoValue]
  /\ last = [op |-> "none", ret |-> Pending]
  /\ cpc = "idle" /\ nexts = <<>> /\ lengths = {}
  /\ lastError = [ret |-> Pending, started |-> FALSE, done |-> FALSE]
  /\ sent = <<>> /\ emitted = <<>> /\ closeArg = Pending /\ closeDone = FALSE
  /\ started = FALSE /\ declared = 0
  /\ chCloses = 0 /\ errWrites = [n |-> 0, unlocked |-> FALSE]
  /\ crashed = "no" /\ calls = 0 /\ ccalls = 0

Init == ChanInit /\ NoWire


(***************************************************************************)
(* Pure helpers.                                                           *)
(***************************************************************************)
\* debug.AssertNotError(v): panics when v is an error value.
IsError(v) == v.kind = "error"

\* Mutant: closeWithError forgets that nil means io.EOF.
NormalizeErr_KeepNil(e) ==
  IF e.kind = "cmdkit.Error" THEN [e EXCEPT !.kind = "*cmdkit.Error"] ELSE e

\* closeWithError's normalisation of its argument: nil becomes io.EOF, a
\* cmdkit.Error value becomes a pointer to (a copy of) it.
NormalizeErr(e) ==
  IF e = NilErr THEN EOF
  ELSE IF e.kind = "cmdkit.Error" THEN [e EXCEPT !.kind = "*cmdkit.Error"]
  ELSE e

\* Mutant: Error() reports io.EOF as an error.
ErrorResult_EOFIsError(e) ==
  IF e = NilErr THEN NilErr
  ELSE IF e.kind = "*cmdkit.Error" THEN e
  ELSE [kind |-> "*cmdkit.Error", msg |-> e.msg, code |-> "ErrNormal"]

\* What Error() makes of r.err once closeCh is closed.
ErrorResult(e) ==
  IF e = NilErr \/ e = EOF THEN NilErr
  ELSE IF e.kind = "*cmdkit.Error" THEN e
  ELSE [kind |-> "*cmdkit.Error", msg |-> e.msg, code |-> "ErrNormal"]

\* Next's type switch on the received value.
Unwrap(v) == IF v.kind = "Single" THEN [kind |-> "value", v |-> v.v] ELSE v

\* The error closeWithError is called with: Emit passes nil after a Single.
cweArg(p) == IF op[p] = "Emit" THEN NilErr ELSE arg[p]

(***************************************************************************)
(* Steps shared by the methods.                                            *)
(***************************************************************************)
\* How many calls a run makes: the bounds for goroutines that call at will,
\* and for a command's Run function its Emits and the close, with one Next
\* for each of them and one more.
CallLimit == IF handler = NoHandler THEN MaxCalls ELSE Len(handler.emits) + 1
ReadLimit == IF handler = NoHandler THEN MaxReads ELSE Len(handler.emits) + 2

\* The program runs until a panic ends it.
Running == crashed = "no"

\* Mutant: the method does not wait for the mutex.
Lock_NoMutex(p, m, a) ==
  /\ Running
  /\ pc[p] = "idle"
  /\ calls < CallLimit
  /\ calls' = calls + 1

\* Producer p calls method m with argument a and takes wl.
Lock(p, m, a) ==
  /\ Running
  /\ pc[p] = "idle"
  /\ calls < CallLimit
  /\ wl = NoHolder
  /\ calls' = calls + 1

\* Producer p, inside method m called with a, panics: the deferred Unlock
\* runs and the program ends.
Panic(p, why) ==
  /\ crashed' = why
  /\ wl' = NoHolder
  /\ pc' = [pc EXCEPT ![p] = "panicked"]
  /\ UNCHANGED last

\* Producer p's call of m with argument a returns e; the deferred Unlock
\* releases wl.
Return(p, m, a, e) ==
  /\ pc' = [pc EXCEPT ![p] = "idle"]
  /\ op' = [op EXCEPT ![p] = "none"]
  /\ arg' = [arg EXCEPT ![p] = NoValue]
  /\ last' = [op |-> m, ret |-> e]
  /\ wl' = NoHolder

\* Producer p goes on inside method m, holding wl, at position at.
Goto(p, m, a, at) ==
  /\ pc' = [pc EXCEPT ![p] = at]
  /\ op' = [op EXCEPT ![p] = m]
  /\ arg' = [arg EXCEPT ![p] = a]
  /\ wl' = p
  /\ UNCHANGED last

(***************************************************************************)
(* chanResponseEmitter.Emit                                                *)
(***************************************************************************)
\* Mutant: Emit goes to the channel without looking at re.closed.
Emit_NoClosedCheck(p, v) ==
  /\ Lock(p, "Emit", v)
  /\ IF IsError(v)
     THEN /\ Panic(p, "AssertNotError")
          /\ op' = [op EXCEPT ![p] = "Emit"]
          /\ arg' = [arg EXCEPT ![p] = v]
          /\ UNCHANGED <<waitLen, started>>
     ELSE /\ waitLen' = "closed"
          /\ started' = TRUE
          /\ crashed' = crashed
          /\ Goto(p, "Emit", v, "Emit_select")
  /\ UNCHANGED <<ctx, ch, closed, closeCh, err, length, cons, ccalls>>
  /\ UNCHANGED <<sent, emitted, closeArg, closeDone, declared, chCloses, errWrites>>
  /\ UNCHANGED wire

\* Mutant: Emit does not fire the first-activity signal.
Emit_NoSignal(p, v) ==
  /\ Lock(p, "Emit", v)
  /\ IF IsError(v)
     THEN /\ Panic(p, "AssertNotError")
          /\ op' = [op EXCEPT ![p] = "Emit"]
          /\ arg' = [arg EXCEPT ![p] = v]
          /\ UNCHANGED <<waitLen, started>>
     ELSE /\ waitLen' = waitLen
          /\ started' = TRUE
          /\ crashed' = crashed
          /\ IF closed
             THEN Return(p, "Emit", v, ErrClosedEmitter)
             ELSE Goto(p, "Emit", v, "Emit_select")
  /\ UNCHANGED <<ctx, ch, closed, closeCh, err, length, cons, ccalls>>
  /\ UNCHANGED <<sent, emitted, closeArg, closeDone, declared, chCloses, errWrites>>
  /\ UNCHANGED wire

\* Lock, AssertNotError, close(waitLen) if open, the closed check.
Emit(p, v) ==
  /\ Lock(p, "Emit", v)
  /\ IF IsError(v)
     THEN /\ Panic(p, "AssertNotError")
          /\ op' = [op EXCEPT ![p] = "Emit"]
          /\ arg' = [arg EXCEPT ![p] = v]
          /\ UNCHANGED <<waitLen, started>>
     ELSE /\ waitLen' = "closed"
          /\ started' = TRUE
          /\ crashed' = crashed
          /\ IF closed
             THEN Return(p, "Emit", v, ErrClosedEmitter)
             ELSE Goto(p, "Emit", v, "Emit_select")
  /\ UNCHANGED <<ctx, ch, closed, closeCh, err, length, cons, ccalls>>
  /\ UNCHANGED <<sent, emitted, closeArg, closeDone, declared, chCloses, errWrites>>
  /\ UNCHANGED wire

\* ctx := re.req.Context; ctx.Done() on a nil Context is a nil dereference.
EmitNilContext(p) ==
  /\ Running
  /\ pc[p] = "Emit_select"
  /\ ctx = "nil"
  /\ Panic(p, "nil Context")
  /\ UNCHANGED <<ctx, ch, closed, closeCh, err, waitLen, length, op, arg>>
  /\ UNCHANGED <<cons, hist, calls, ccalls>>
  /\ UNCHANGED wire

\* The select finds the consumer parked in its receive: the value is handed
\* over and the consumer's Next returns it.  (A send on a closed channel
\* panics.)
EmitSend(p) ==
  /\ Running
  /\ pc[p] = "Emit_select"
  /\ ctx # "nil"
  /\ IF ch = "closed"
     THEN /\ Panic(p, "send on closed channel")
          /\ UNCHANGED <<cpc, nexts, sent>>
     ELSE /\ cpc = "Next_parked"
          /\ cpc' = "idle"
          /\ nexts' = Append(nexts, [v |-> Unwrap(arg[p]), e |-> NilErr])
          /\ sent' = Append(sent, arg[p])
          /\ pc' = [pc EXCEPT ![p] = "Emit_sent"]
          /\ UNCHANGED <<wl, last, crashed>>
  /\ UNCHANGED <<ctx, ch, closed, closeCh, err, waitLen, length, op, arg>>
  /\ UNCHANGED <<lengths, lastError, calls, ccalls>>
  /\ UNCHANGED <<emitted, closeArg, closeDone, started, declared, chCloses, errWrites>>
  /\ UNCHANGED wire

\* The select finds the context already done.
EmitCancelled(p) ==
  /\ Running
  /\ pc[p] = "Emit_select"
  /\ ctx = "cancelled"
  /\ pc' = [pc EXCEPT ![p] = "Emit_ctxdone"]
  /\ UNCHANGED <<stream, op, arg, last, cons, hist, crashed, calls, ccalls>>
  /\ UNCHANGED wire

\* Mutant: ch has a buffer, so the send proceeds without a receiver.
EmitPark_Buffered(p) ==
  /\ Running
  /\ pc[p] = "Emit_select"
  /\ ctx = "live"
  /\ ch = "open"
  /\ cpc # "Next_parked"
  /\ pc' = [pc EXCEPT ![p] = "Emit_sent"]
  /\ UNCHANGED <<stream, op, arg, last, cons, hist, crashed, calls, ccalls>>
  /\ UNCHANGED wire

\* No case of the select can proceed: the goroutine parks, holding wl.
EmitPark(p) ==
  /\ Running
  /\ pc[p] = "Emit_select"
  /\ ctx = "live"
  /\ ch = "open"
  /\ cpc # "Next_parked"
  /\ pc' = [pc EXCEPT ![p] = "Emit_parked"]
  /\ UNCHANGED <<stream, op, arg, last, cons, hist, crashed, calls, ccalls>>
  /\ UNCHANGED wire

\* Mutant: Emit returns nil after a Single without closing the stream.
EmitSent_NoAutoClose(p) ==
  /\ Running
  /\ pc[p] = "Emit_sent"
  /\ Return(p, "Emit", arg[p], NilErr)
  /\ emitted' = Append(emitted, arg[p])
  /\ UNCHANGED <<ctx, ch, closed, closeCh, err, waitLen, length, cons>>
  /\ UNCHANGED <<sent, closeArg, closeDone, started, declared, chCloses, errWrites>>
  /\ UNCHANGED <<crashed, calls, ccalls>>
  /\ UNCHANGED wire

\* After the send: a Single closes the stream, anything else returns nil.
EmitSent(p) ==
  /\ Running
  /\ pc[p] = "Emit_sent"
  /\ IF arg[p].kind = "Single"
     THEN /\ pc' = [pc EXCEPT ![p] = "cwe_closed"]
          /\ closeArg' = NilErr
          /\ UNCHANGED <<wl, op, arg, last, emitted>>
     ELSE /\ Return(p, "Emit", arg[p], NilErr)
          /\ emitted' = Append(emitted, arg[p])
          /\ UNCHANGED closeArg
  /\ UNCHANGED <<ctx, ch, closed, closeCh, err, waitLen, length, cons>>
  /\ UNCHANGED <<sent, closeDone, started, declared, chCloses, errWrites>>
  /\ UNCHANGED <<crashed, calls, ccalls>>
  /\ UNCHANGED wire

\* Mutant: a cancelled Emit closes the stream with the cancellation error.
EmitCtxDone_ClosesStream(p) ==
  /\ Running
  /\ pc[p] \in {"Emit_ctxdone", "Emit_woken"}
  /\ Return(p, "Emit", arg[p], CtxErr)
  /\ closed' = TRUE
  /\ err' = CtxErr
  /\ UNCHANGED <<ctx, ch, closeCh, waitLen, length, cons, hist>>
  /\ UNCHANGED <<crashed, calls, ccalls>>
  /\ UNCHANGED wire

\* case <-ctx.Done(): return ctx.Err(), for an Emit that found the context
\* done ("Emit_ctxdone") or that the cancellation found parked ("Emit_woken").
EmitCtxDone(p) ==
  /\ Running
  /\ pc[p] \in {"Emit_ctxdone", "Emit_woken"}
  /\ Return(p, "Emit", arg[p], CtxErr)
  /\ UNCHANGED <<ctx, ch, closed, closeCh, err, waitLen, length, cons, hist>>
  /\ UNCHANGED <<crashed, calls, ccalls>>
  /\ UNCHANGED wire

(***************************************************************************)
(* chanResponseEmitter.SetLength                                           *)
(***************************************************************************)
\* Mutant: SetLength writes the length whatever waitLen says.
SetLength_Always(p, l) ==
  /\ Lock(p, "SetLength", l)
  /\ length' = l
  /\ declared' = IF started THEN declared ELSE l
  /\ Return(p, "SetLength", l, NilErr)
  /\ UNCHANGED <<ctx, ch, closed, closeCh, err, waitLen, cons, crashed, ccalls>>
  /\ UNCHANGED <<sent, emitted, closeArg, closeDone, started, chCloses, errWrites>>
  /\ UNCHANGED wire

\* Lock; the write, unless waitLen is closed; unlock.
SetLength(p, l) ==
  /\ Lock(p, "SetLength", l)
  /\ length' = IF waitLen = "closed" THEN length ELSE l
  /\ declared' = IF started THEN declared ELSE l
  /\ Return(p, "SetLength", l, NilErr)
  /\ UNCHANGED <<ctx, ch, closed, closeCh, err, waitLen, cons, crashed, ccalls>>
  /\ UNCHANGED <<sent, emitted, closeArg, closeDone, started, chCloses, errWrites>>
  /\ UNCHANGED wire

(***************************************************************************)
(* chanResponseEmitter.Close, CloseWithError, closeWithError               *)
(***************************************************************************)
\* Mutant: CloseWithError closes without looking at re.closed.
CloseWithError_NoCheck(p, e) ==
  /\ Lock(p, "CloseWithError", e)
  /\ Goto(p, "CloseWithError", e, "cwe_closed")
  /\ started' = TRUE
  /\ closeArg' = e
  /\ UNCHANGED <<ctx, ch, closed, closeCh, err, waitLen, length, cons>>
  /\ UNCHANGED <<sent, emitted, closeDone, declared, chCloses, errWrites>>
  /\ UNCHANGED <<crashed, ccalls>>
  /\ UNCHANGED wire

\* Lock and the closed check.
CloseWithError(p, e) ==
  /\ Lock(p, "CloseWithError", e)
  /\ IF closed
     THEN /\ Return(p, "CloseWithError", e, ErrClosingClosedEmitter)
          /\ UNCHANGED <<started, closeArg>>
     ELSE /\ Goto(p, "CloseWithError", e, "cwe_closed")
          /\ started' = TRUE
          /\ closeArg' = e
  /\ UNCHANGED <<ctx, ch, closed, closeCh, err, waitLen, length, cons>>
  /\ UNCHANGED <<sent, emitted, closeDone, declared, chCloses, errWrites>>
  /\ UNCHANGED <<crashed, ccalls>>
  /\ UNCHANGED wire

\* return re.CloseWithError(nil)
Close(p) == CloseWithError(p, NilErr)

\* re.closed = true
cweSetClosed(p) ==
  /\ Running
  /\ pc[p] = "cwe_closed"
  /\ closed' = TRUE
  /\ pc' = [pc EXCEPT ![p] = "cwe_err"]
  /\ UNCHANGED <<ctx, ch, wl, closeCh, err, waitLen, length, op, arg, last>>
  /\ UNCHANGED <<cons, hist, crashed, calls, ccalls>>
  /\ UNCHANGED wire

\* Mutant: closeWithError closes ch without recording the error.
cweSetErr_Skipped(p) ==
  /\ Running
  /\ pc[p] = "cwe_err"
  /\ ch' = "closed"
  /\ chCloses' = chCloses + 1
  /\ pc' = [pc EXCEPT ![p] = "cwe_waitLen"]
  /\ UNCHANGED <<ctx, wl, closed, closeCh, err, waitLen, length, op, arg, last>>
  /\ UNCHANGED <<sent, emitted, closeArg, closeDone, started, declared, errWrites>>
  /\ UNCHANGED <<cons, crashed, calls, ccalls>>
  /\ UNCHANGED wire

\* re.err = err, after the normalisation
cweSetErr(p) ==
  /\ Running
  /\ pc[p] = "cwe_err"
  /\ err' = NormalizeErr(cweArg(p))
  /\ errWrites' = [n |-> errWrites.n + 1,
                   unlocked |-> errWrites.unlocked \/ wl # p]
  /\ pc' = [pc EXCEPT ![p] = "cwe_ch"]
  /\ UNCHANGED <<ctx, ch, wl, closed, closeCh, waitLen, length, op, arg, last>>
  /\ UNCHANGED <<sent, emitted, closeArg, closeDone, started, declared, chCloses>>
  /\ UNCHANGED <<cons, crashed, calls, ccalls>>
  /\ UNCHANGED wire

\* close(re.ch); closing a closed channel panics.
cweCloseCh(p) ==
  /\ Running
  /\ pc[p] = "cwe_ch"
  /\ chCloses' = chCloses + 1
  /\ IF ch = "closed"
     THEN /\ Panic(p, "close of closed channel")
          /\ ch' = ch
     ELSE /\ ch' = "closed"
          /\ pc' = [pc EXCEPT ![p] = "cwe_waitLen"]
          /\ UNCHANGED <<wl, last, crashed>>
  /\ UNCHANGED <<ctx, closed, closeCh, err, waitLen, length, op, arg>>
  /\ UNCHANGED <<sent, emitted, closeArg, closeDone, started, declared, errWrites>>
  /\ UNCHANGED <<cons, calls, ccalls>>
  /\ UNCHANGED wire

\* close(re.waitLen) unless it is closed
cweWaitLen(p) ==
  /\ Running
  /\ pc[p] = "cwe_waitLen"
  /\ waitLen' = "closed"
  /\ pc' = [pc EXCEPT ![p] = "cwe_closeCh"]
  /\ UNCHANGED <<ctx, ch, wl, closed, closeCh, err, length, op, arg, last>>
  /\ UNCHANGED <<cons, hist, crashed, calls, ccalls>>
  /\ UNCHANGED wire

\* close(re.closeCh) unless it is closed
cweCloseCloseCh(p) ==
  /\ Running
  /\ pc[p] = "cwe_closeCh"
  /\ closeCh' = "closed"
  /\ pc' = [pc EXCEPT ![p] = "cwe_return"]
  /\ UNCHANGED <<ctx, ch, wl, closed, err, waitLen, length, op, arg, last>>
  /\ UNCHANGED <<cons, hist, crashed, calls, ccalls>>
  /\ UNCHANGED wire

\* closeWithError returns; its caller (CloseWithError, or Emit after a
\* Single) returns nil and unlocks.
cweReturn(p) ==
  /\ Running
  /\ pc[p] = "cwe_return"
  /\ Return(p, op[p], arg[p], NilErr)
  /\ emitted' = IF op[p] = "Emit" THEN Append(emitted, arg[p]) ELSE emitted
  /\ closeDone' = TRUE
  /\ UNCHANGED <<ctx, ch, closed, closeCh, err, waitLen, length, cons>>
  /\ UNCHANGED <<sent, closeArg, started, declared, chCloses, errWrites>>
  /\ UNCHANGED <<crashed, calls, ccalls>>
  /\ UNCHANGED wire

(***************************************************************************)
(* chanResponse.Next, Length, Error (the consumer goroutine)               *)
(***************************************************************************)
\* The consumer starts a call.
Read ==
  /\ Running
  /\ cpc = "idle"
  /\ ccalls < ReadLimit
  /\ ccalls' = ccalls + 1

\* Next's select finds a producer parked in its send: it receives the value.
NextRecv ==
  /\ Read
  /\ \E p \in Producers :
       /\ pc[p] = "Emit_parked"
       /\ nexts' = Append(nexts, [v |-> Unwrap(arg[p]), e |-> NilErr])
       /\ sent' = Append(sent, arg[p])
       /\ pc' = [pc EXCEPT ![p] = "Emit_sent"]
  /\ UNCHANGED <<stream, op, arg, last, cpc, lengths, lastError, crashed, calls>>
  /\ UNCHANGED <<emitted, closeArg, closeDone, started, declared, chCloses, errWrites>>
  /\ UNCHANGED wire

\* Mutant: Next reports every close as the end of the stream.
NextClosed_EOF ==
  /\ IF cpc = "Next_parked" THEN Running /\ ccalls' = ccalls ELSE Read
  /\ ch = "closed"
  /\ nexts' = Append(nexts, [v |-> NoValue, e |-> EOF])
  /\ cpc' = "idle"
  /\ UNCHANGED <<stream, prod, lengths, lastError, hist, crashed, calls>>
  /\ UNCHANGED wire

\* Mutant: Next reports the terminal error once, and io.EOF from then on.
NextClosed_Once ==
  /\ IF cpc = "Next_parked" THEN Running /\ ccalls' = ccalls ELSE Read
  /\ ch = "closed"
  /\ nexts' = Append(nexts,
        [v |-> NoValue,
         e |-> IF \E k \in 1..Len(nexts) : nexts[k] = [v |-> NoValue, e |-> err]
               THEN EOF ELSE err])
  /\ cpc' = "idle"
  /\ UNCHANGED <<stream, prod, lengths, lastError, hist, crashed, calls>>
  /\ UNCHANGED wire

\* Next finds ch closed, on entering the select or parked in it: it returns
\* nil and r.err.
NextClosed ==
  /\ IF cpc = "Next_parked" THEN Running /\ ccalls' = ccalls ELSE Read
  /\ ch = "closed"
  /\ nexts' = Append(nexts, [v |-> NoValue, e |-> err])
  /\ cpc' = "idle"
  /\ UNCHANGED <<stream, prod, lengths, lastError, hist, crashed, calls>>
  /\ UNCHANGED wire

\* Next's select finds the context already done.
NextCancelled ==
  /\ Read
  /\ ctx = "cancelled"
  /\ cpc' = "Next_ctxdone"
  /\ UNCHANGED <<stream, prod, nexts, lengths, lastError, hist, crashed, calls>>
  /\ UNCHANGED wire

\* No case of Next's select can proceed: the consumer parks.  A nil Context
\* is replaced by context.Background(), which is never done.
NextPark ==
  /\ Read
  /\ ctx # "cancelled"
  /\ ch = "open"
  /\ \A p \in Producers : pc[p] # "Emit_parked"
  /\ cpc' = "Next_parked"
  /\ UNCHANGED <<stream, prod, nexts, lengths, lastError, hist, crashed, calls>>
  /\ UNCHANGED wire

\* case <-ctx.Done(): return nil, ctx.Err(), for a Next that found the
\* context done or that the cancellation found parked ("Next_woken").
NextCtxDone ==
  /\ Running
  /\ cpc \in {"Next_ctxdone", "Next_woken"}
  /\ nexts' = Append(nexts, [v |-> NoValue, e |-> CtxErr])
  /\ cpc' = "idle"
  /\ UNCHANGED <<stream, prod, lengths, lastError, hist, crashed, calls, ccalls>>
  /\ UNCHANGED wire

\* Length is called and waits for waitLen.
LengthCall ==
  /\ Read
  /\ cpc' = "Length"
  /\ UNCHANGED <<stream, prod, nexts, lengths, lastError, hist, crashed, calls>>
  /\ UNCHANGED wire

\* <-r.waitLen; return r.length
Length ==
  /\ Running
  /\ cpc = "Length"
  /\ waitLen = "closed"
  /\ lengths' = lengths \cup {length}
  /\ cpc' = "idle"
  /\ UNCHANGED <<stream, prod, nexts, lastError, hist, crashed, calls, ccalls>>
  /\ UNCHANGED wire

\* What Error() returns in the current state: the select on closeCh, with
\* nil as the default.
ErrorNow == IF closeCh = "closed" THEN ErrorResult(err) ELSE NilErr

\* Error never blocks: closeCh decides.  The call is recorded with whether a
\* close had taken effect, and had returned, when it was made.
Error ==
  /\ Read
  /\ lastError' = [ret |-> ErrorNow,
                   started |-> closeArg # Pending,
                   done |-> closeDone]
  /\ UNCHANGED <<stream, prod, cpc, nexts, lengths, hist, crashed, calls>>
  /\ UNCHANGED wire

(***************************************************************************)
(* The invocation's context                                                *)
(***************************************************************************)
\* Mutant: Emit's select has no case for ctx.Done(), so a cancellation does
\* not reach a parked Emit.
Cancel_EmitNotSelecting ==
  /\ Running
  /\ ctx = "live"
  /\ ctx' = "cancelled"
  /\ cpc' = IF cpc = "Next_parked" /\ ch = "open" THEN "Next_woken" ELSE cpc
  /\ UNCHANGED <<ch, wl, closed, closeCh, err, waitLen, length, prod>>
  /\ UNCHANGED <<nexts, lengths, lastError, hist, crashed, calls, ccalls>>
  /\ UNCHANGED wire

\* Mutant: the cancellation does not complete the select of a parked Next,
\* which stays ready to receive.
Cancel_NextStaysParked ==
  /\ Running
  /\ ctx = "live"
  /\ ctx' = "cancelled"
  /\ pc' = [p \in Producers |->
              IF pc[p] = "Emit_parked" THEN "Emit_woken" ELSE pc[p]]
  /\ UNCHANGED <<ch, wl, closed, closeCh, err, waitLen, length, op, arg, last>>
  /\ UNCHANGED <<cpc, nexts, lengths, lastError, hist, crashed, calls, ccalls>>
  /\ UNCHANGED wire

\* The context is cancelled: close(done) completes every goroutine parked in
\* a select on it.  A receiver that close(ch) has already released stays
\* with the receive.
Cancel ==
  /\ Running
  /\ ctx = "live"
  /\ ctx' = "cancelled"
  /\ pc' = [p \in Producers |->
              IF pc[p] = "Emit_parked" THEN "Emit_woken" ELSE pc[p]]
  /\ cpc' = IF cpc = "Next_parked" /\ ch = "open" THEN "Next_woken" ELSE cpc
  /\ UNCHANGED <<ch, wl, closed, closeCh, err, waitLen, length, op, arg, last>>
  /\ UNCHANGED <<nexts, lengths, lastError, hist, crashed, calls, ccalls>>
  /\ UNCHANGED wire

(***************************************************************************)
(* The HTTP transport (spec.md 4.3, 4.4): one request on the server, whose  *)
(* emitter writes to the HTTP response, and the client's Response that      *)
(* reads that response.                                                     *)
(***************************************************************************)
\* The encoder writes a value as one chunk; the client's decoder reads it.
EncodeValue(v) == [kind |-> "chunk", text |-> v.v]
DecodeValue(c) == [kind |-> "value", v |-> c.text]

\* The body of a response that is not streamed: the encoded error.
ErrorBody(e) ==
  [kind |-> "error", msg |-> e.msg,
   code |-> IF e.kind \in {"cmdkit.Error", "*cmdkit.Error"} THEN e.code ELSE "ErrNormal"]

\* The trailer written at the close: empty on success, else the error's
\* message and, for a structured error, its code.
TrailerOf(e) ==
  IF e = NilErr \/ e = EOF
  THEN [sent |-> TRUE, msg |-> "", code |-> "-"]
  ELSE [sent |-> TRUE, msg |-> e.msg,
        code |-> IF e.kind \in {"cmdkit.Error", "*cmdkit.Error"} THEN e.code ELSE "-"]

\* The error the client makes of a non-empty trailer or of an error body.
FromWire(m) ==
  [kind |-> "*cmdkit.Error", msg |-> m.msg,
   code |-> IF m.code = "-" THEN "ErrNormal" ELSE m.code]

\* The body of the response to a request that is rejected.
RejectBody == [kind |-> "error", msg |-> "bad request", code |-> "ErrClient"]

\* Received -> Decoded: the request parses and passes the admission check.
DecodeRequest ==
  /\ hstate = "Received"
  /\ hstate' = "Decoded"
  /\ UNCHANGED <<handler, hpos, status, trailerDeclared, body, trailer, cnexts>>
  /\ UNCHANGED inproc

\* The request is malformed or not admitted: it is rejected before the
\* handler runs, with a response that is not streamed.
Reject ==
  /\ hstate = "Received"
  /\ hstate' = "Closed"
  /\ status' \in {"400", "403", "404"}
  /\ body' = << RejectBody >>
  /\ UNCHANGED <<handler, hpos, trailerDeclared, trailer, cnexts>>
  /\ UNCHANGED inproc

\* Decoded -> Executing: the handler is invoked.
Execute ==
  /\ hstate = "Decoded"
  /\ hstate' = "Executing"
  /\ UNCHANGED <<handler, hpos, status, trailerDeclared, body, trailer, cnexts>>
  /\ UNCHANGED inproc

\* The handler calls Emit.  The first Emit writes the response headers
\* (status 200, the trailer declared) and starts the chunked body; every
\* Emit writes and flushes one chunk.
HttpEmit ==
  /\ hstate \in {"Executing", "Streaming"}
  /\ hpos < Len(handler.emits)
  /\ hpos' = hpos + 1
  /\ hstate' = "Streaming"
  /\ status' = IF hstate = "Executing" THEN StatusOK ELSE status
  /\ trailerDeclared' = IF hstate = "Executing" THEN TRUE ELSE trailerDeclared
  /\ body' = Append(body, EncodeValue(handler.emits[hpos + 1]))
  /\ UNCHANGED <<handler, trailer, cnexts>>
  /\ UNCHANGED inproc

\* Mutant: the close sends every error in the trailer, also when no header
\* has been written.
HttpClose_TrailerOnly ==
  /\ hstate \in {"Executing", "Streaming"}
  /\ hpos = Len(handler.emits)
  /\ hstate' = "Closed"
  /\ status' = StatusOK
  /\ trailerDeclared' = TRUE
  /\ trailer' = TrailerOf(handler.ret)
  /\ UNCHANGED <<handler, hpos, body, cnexts>>
  /\ UNCHANGED inproc

\* The handler returns and the stream is closed with its error.  After an
\* Emit the body ends and the trailer carries the error; with no Emit an
\* error becomes a response that is not streamed (a status that is not 200,
\* the encoded error as the body), and a success an empty 200 response.
HttpClose ==
  /\ hstate \in {"Executing", "Streaming"}
  /\ hpos = Len(handler.emits)
  /\ hstate' = "Closed"
  /\ IF hstate = "Streaming"
     THEN /\ trailer' = TrailerOf(handler.ret)
          /\ UNCHANGED <<status, trailerDeclared, body>>
     ELSE IF handler.ret = NilErr
     THEN /\ status' = StatusOK
          /\ trailerDeclared' \in BOOLEAN
          /\ trailer' = IF trailerDeclared' THEN TrailerOf(NilErr) ELSE NoTrailer
          /\ UNCHANGED body
     ELSE /\ status' \in EarlyFailureStatuses
          /\ body' = << ErrorBody(handler.ret) >>
          /\ UNCHANGED <<trailerDeclared, trailer>>
  /\ UNCHANGED <<handler, hpos, cnexts>>
  /\ UNCHANGED inproc

\* The values the client has decoded so far.
ClientValues == SelectSeq(cnexts, LAMBDA r : r.e = NilErr)

\* Mutant: the client does not read the trailer.
ClientNext_IgnoresTrailer ==
  /\ Len(cnexts) < MaxReads
  /\ status # NoStatus
  /\ IF status # StatusOK
     THEN cnexts' = Append(cnexts, [v |-> NoValue, e |-> FromWire(body[1])])
     ELSE IF Len(ClientValues) < Len(body)
     THEN cnexts' = Append(cnexts,
             [v |-> DecodeValue(body[Len(ClientValues) + 1]), e |-> NilErr])
     ELSE /\ hstate = "Closed"
          /\ cnexts' = Append(cnexts, [v |-> NoValue, e |-> EOF])
  /\ UNCHANGED <<hstate, handler, hpos, status, trailerDeclared, body, trailer>>
  /\ UNCHANGED inproc

\* The client's Next.  A response that is not streamed yields its error; a
\* streamed one yields the next chunk decoded, and once the body is
\* exhausted the error of a non-empty trailer, else io.EOF.  Next waits
\* while neither a chunk nor the end of the body has arrived.
ClientNext ==
  /\ Len(cnexts) < MaxReads
  /\ status # NoStatus
  /\ IF status # StatusOK
     THEN cnexts' = Append(cnexts, [v |-> NoValue, e |-> FromWire(body[1])])
     ELSE IF Len(ClientValues) < Len(body)
     THEN cnexts' = Append(cnexts,
             [v |-> DecodeValue(body[Len(ClientValues) + 1]), e |-> NilErr])
     ELSE /\ hstate = "Closed"
          /\ cnexts' = Append(cnexts,
                [v |-> NoValue,
                 e |-> IF trailer.msg # "" THEN FromWire(trailer) ELSE EOF])
  /\ UNCHANGED <<hstate, handler, hpos, status, trailerDeclared, body, trailer>>
  /\ UNCHANGED inproc

(***************************************************************************)
(* A command run in process: its Run function is the producer, and the      *)
(* stream is closed with the error Run returns.                             *)
(***************************************************************************)
\* The goroutine that runs the command.
Runner == 1

\* Run makes its next Emit; it goes on only while every Emit returned nil.
HandlerEmit ==
  /\ handler # NoHandler
  /\ closeArg = Pending
  /\ last.ret \in {Pending, NilErr}
  /\ Len(emitted) < Len(handler.emits)
  /\ Emit(Runner, handler.emits[Len(emitted) + 1])

\* Run has returned: the stream is closed with its error.
HandlerReturn ==
  /\ handler # NoHandler
  /\ closeArg = Pending
  /\ last.ret \in {Pending, NilErr}
  /\ Len(emitted) = Len(handler.emits)
  /\ CloseWithError(Runner, handler.ret)

(***************************************************************************)
(* The specification                                                       *)
(***************************************************************************)
Next ==
  \/ \E p \in Producers, v \in EmitValues : Emit(p, v)
  \/ \E p \in Producers : EmitNilContext(p)
  \/ \E p \in Producers : EmitSend(p)
  \/ \E p \in Producers : EmitCancelled(p)
  \/ \E p \in Producers : EmitPark(p)
  \/ \E p \in Producers : EmitSent(p)
  \/ \E p \in Producers : EmitCtxDone(p)
  \/ \E p \in Producers, l \in Lengths : SetLength(p, l)
  \/ \E p \in Producers : Close(p)
  \/ \E p \in Producers, e \in CloseErrors : CloseWithError(p, e)
  \/ \E p \in Producers : cweSetClosed(p)
  \/ \E p \in Producers : cweSetErr(p)
  \/ \E p \in Producers : cweCloseCh(p)
  \/ \E p \in Producers : cweWaitLen(p)
  \/ \E p \in Producers : cweCloseCloseCh(p)
  \/ \E p \in Producers : cweReturn(p)
  \/ NextRecv
  \/ NextClosed
  \/ NextCancelled
  \/ NextPark
  \/ NextCtxDone
  \/ LengthCall
  \/ Length
  \/ Error
  \/ Cancel

Spec == Init /\ [][Next]_vars

\* An invocation that has a context, whose consumer only calls Next.
InitWithContext == Init /\ ctx = "live"

NextWithContext ==
  \/ \E p \in Producers, v \in EmitValues : Emit(p, v)
  \/ \E p \in Producers : EmitSend(p)
  \/ \E p \in Producers : EmitCancelled(p)
  \/ \E p \in Producers : EmitPark(p)
  \/ \E p \in Producers : EmitSent(p)
  \/ \E p \in Producers : EmitCtxDone(p)
  \/ \E p \in Producers, l \in Lengths : SetLength(p, l)
  \/ \E p \in Producers : Close(p)
  \/ \E p \in Producers, e \in CloseErrors : CloseWithError(p, e)
  \/ \E p \in Producers : cweSetClosed(p)
  \/ \E p \in Producers : cweSetErr(p)
  \/ \E p \in Producers : cweCloseCh(p)
  \/ \E p \in Producers : cweWaitLen(p)
  \/ \E p \in Producers : cweCloseCloseCh(p)
  \/ \E p \in Producers : cweReturn(p)
  \/ NextRecv
  \/ NextClosed
  \/ NextCancelled
  \/ NextPark
  \/ NextCtxDone
  \/ Cancel

\* The Go scheduler runs every goroutine that can run: a goroutine that the
\* cancellation has released from its select goes on to its return.
FairSpec ==
  /\ InitWithContext
  /\ [][NextWithContext]_vars
  /\ \A p \in Producers : WF_vars(EmitCtxDone(p))
  /\ WF_vars(NextCtxDone)

\* The same invocation with a consumer that also calls Length.
NextWithLength ==
  \/ NextWithContext
  \/ LengthCall
  \/ Length

\* The scheduler runs every goroutine that can run: a Length call whose
\* channel is closed returns, and a producer inside closeWithError goes on
\* to close(re.waitLen).
LengthSpec ==
  /\ InitWithContext
  /\ [][NextWithLength]_vars
  /\ WF_vars(Length)
  /\ \A p \in Producers :
        /\ WF_vars(cweSetClosed(p))
        /\ WF_vars(cweSetErr(p))
        /\ WF_vars(cweCloseCh(p))
        /\ WF_vars(cweWaitLen(p))

\* The same invocation with producers that also emit the nil value.
NextWithNil ==
  \/ NextWithContext
  \/ \E p \in Producers : Emit(p, NoValue)

NilSpec == InitWithContext /\ [][NextWithNil]_vars

\* One HTTP request for a command of cmdRoot, and its client.
HttpInit ==
  /\ ChanInit /\ ctx = "live"
  /\ hstate = "Received" /\ handler \in Handlers /\ hpos = 0
  /\ status = NoStatus /\ trailerDeclared = FALSE
  /\ body = <<>> /\ trailer = NoTrailer /\ cnexts = <<>>

HttpNext ==
  \/ DecodeRequest
  \/ Reject
  \/ Execute
  \/ HttpEmit
  \/ HttpClose
  \/ ClientNext

HttpSpec == HttpInit /\ [][HttpNext]_vars

\* simpleAdd run in process on a list of arguments, with a consumer that
\* calls Next.
AdderInit ==
  /\ ChanInit /\ ctx = "live"
  /\ hstate = "None" /\ handler \in {SimpleAdd(args) : args \in ArgLists}
  /\ hpos = 0 /\ status = NoStatus /\ trailerDeclared = FALSE
  /\ body = <<>> /\ trailer = NoTrailer /\ cnexts = <<>>

AdderNext ==
  \/ HandlerEmit
  \/ HandlerReturn
  \/ EmitSend(Runner)
  \/ EmitPark(Runner)
  \/ EmitSent(Runner)
  \/ cweSetClosed(Runner)
  \/ cweSetErr(Runner)
  \/ cweCloseCh(Runner)
  \/ cweWaitLen(Runner)
  \/ cweCloseCloseCh(Runner)
  \/ cweReturn(Runner)
  \/ NextRecv
  \/ NextClosed
  \/ NextPark

AdderSpec == AdderInit /\ [][AdderNext]_vars

(***************************************************************************)
(* Properties                                                              *)
(***************************************************************************)
\* The k-th Next result when the stream ended with terminal error e: the
\* k-th value handed over, and past the last value, nil with e.
Delivered(k, e) ==
  IF k <= Len(sent)
  THEN [v |-> Unwrap(sent[k]), e |-> NilErr]
  ELSE [v |-> NoValue, e |-> e]

\* The Emit calls that returned nil are those whose value was handed over,
\* in that order; only the hand-over in progress has not returned yet.
EmittedIsSent ==
  /\ Len(emitted) <= Len(sent)
  /\ Len(sent) <= Len(emitted) + 1
  /\ \A k \in 1..Len(emitted) : emitted[k] = sent[k]
  /\ closeDone => emitted = sent

\* C1: without cancellation, once Close() (a nil error) has taken effect, the
\* Next calls have returned the values of the successful Emit calls, one
\* each and in emission order, and every Next after the last value has
\* returned nil with io.EOF.
C1_EmitsThenEOF ==
  (ctx # "cancelled" /\ closeArg = NilErr) =>
     /\ EmittedIsSent
     /\ \A k \in 1..Len(nexts) : nexts[k] = Delivered(k, EOF)

\* Two different values were emitted, then Close(); three Next calls
\* returned them and io.EOF.
C1_Witness ==
  /\ ctx # "cancelled" /\ closeArg = NilErr /\ closeDone
  /\ Len(emitted) = 2 /\ emitted[1] # emitted[2]
  /\ emitted[1] \in PlainValues /\ emitted[2] \in PlainValues
  /\ Len(nexts) = 3 /\ nexts[3].e = EOF

\* The error Next returns for a stream closed with the non-nil error e: e,
\* but a *cmdkit.Error pointing to a copy of e when e is a cmdkit.Error value.
AsStored(e) ==
  IF e.kind = "cmdkit.Error"
  THEN [kind |-> "*cmdkit.Error", msg |-> e.msg, code |-> e.code]
  ELSE e

\* C2 as stated: after CloseWithError(e), e non-nil, the Next calls return
\* the emitted values in order and then e itself.
C2_ReturnsSameError ==
  (ctx # "cancelled" /\ closeArg \in CloseErrors) =>
     \A k \in 1..Len(nexts) : nexts[k] = Delivered(k, closeArg)

\* C2 (amended): after CloseWithError(e), e non-nil, without cancellation,
\* the first N Next calls return the N emitted values in order and every
\* later one returns nil with e, where a cmdkit.Error passed by value comes
\* back as a *cmdkit.Error with the same message and code.
C2_ValuesThenError ==
  (ctx # "cancelled" /\ closeArg \in CloseErrors) =>
     /\ EmittedIsSent
     /\ \A k \in 1..Len(nexts) : nexts[k] = Delivered(k, AsStored(closeArg))

\* One value was emitted, the stream closed with an unstructured error, and
\* two Next calls returned the value and then that error.
C2_Witness ==
  /\ ctx # "cancelled" /\ closeArg = PlainErr /\ closeDone
  /\ Len(emitted) = 1
  /\ Len(nexts) = 2 /\ nexts[1].e = NilErr /\ nexts[2].e = PlainErr

\* The terminal error the stream records for a close with error e.
Terminal(e) == IF e = NilErr THEN EOF ELSE AsStored(e)

\* C3: a Close/CloseWithError call made when no close has taken effect takes
\* effect with its own error, and the close that took effect returns nil;
\* every call made after that returns ErrClosingClosedEmitter in one step
\* that changes nothing of the stream; and the recorded terminal error is
\* always that of the close that took effect.
C3_FirstCloseWins ==
  [][ /\ \A p \in Producers, e \in CloseErrors \cup {NilErr} :
           CloseWithError(p, e) =>
              IF closeArg = Pending
              THEN pc'[p] = "cwe_closed" /\ closeArg' = e /\ last' = last
              ELSE /\ last' = [op |-> "CloseWithError", ret |-> ErrClosingClosedEmitter]
                   /\ pc'[p] = "idle"
                   /\ UNCHANGED <<ch, closed, closeCh, err, waitLen, length>>
                   /\ UNCHANGED <<nexts, closeArg, closeDone, chCloses, errWrites>>
      /\ \A p \in Producers :
           (cweReturn(p) /\ op[p] = "CloseWithError") =>
              ~closeDone /\ last' = [op |-> "CloseWithError", ret |-> NilErr]
      /\ closeDone' => err' = Terminal(closeArg')
    ]_vars

\* A close with an error took effect and returned, and a later close was
\* refused.
C3_Witness ==
  /\ closeDone /\ closeArg = PlainErr /\ err = PlainErr
  /\ last = [op |-> "CloseWithError", ret |-> ErrClosingClosedEmitter]

\* C4: an Emit of a value that is not an error, made after a close has taken
\* effect, returns ErrClosedEmitter in one step, without a panic, and leaves
\* the closed flag, the terminal error, the length, the channels and what
\* was delivered unchanged; no value is handed over once a close has taken
\* effect.
C4_EmitAfterClose ==
  [][ /\ \A p \in Producers, v \in PlainValues \cup SingleValues :
           (Emit(p, v) /\ closeArg # Pending) =>
              /\ last' = [op |-> "Emit", ret |-> ErrClosedEmitter]
              /\ pc'[p] = "idle"
              /\ crashed' = "no"
              /\ UNCHANGED <<ch, closed, closeCh, err, length, sent, emitted, nexts>>
      /\ closeArg # Pending => sent' = sent
    ]_vars

\* A value was emitted and received, the stream was closed, and a later Emit
\* was refused.
C4_Witness ==
  /\ closeDone /\ Len(emitted) = 1 /\ Len(nexts) = 2
  /\ last = [op |-> "Emit", ret |-> ErrClosedEmitter]

\* C5: the length is that of the last SetLength made before the first Emit
\* or close began (0 without one), SetLength calls made later leave it, and
\* every Length() call returned it.
C5_LengthFrozen ==
  /\ length = declared
  /\ \A l \in lengths : l = declared

\* SetLength(2) came first, the stream was closed, a later SetLength
\* returned, and Length() returned 2.
C5_Witness ==
  /\ declared = 2 /\ lengths = {2} /\ closeDone /\ last.op = "SetLength"

IsValueResult(r) == r.e = NilErr

\* C6: a Single handed over is the last value of the stream and its Next
\* returned the inner value; the Emit that sent it closes the stream with
\* nil before it returns, so every Next past the values returns io.EOF (or
\* the cancellation error), and after that Emit every Emit returns
\* ErrClosedEmitter and every Close/CloseWithError ErrClosingClosedEmitter.
C6_SingleClosesStream ==
  \A k \in 1..Len(sent) :
     sent[k].kind = "Single" =>
        /\ k = Len(sent)
        /\ LET vals == SelectSeq(nexts, IsValueResult)
           IN  /\ Len(vals) = k
               /\ vals[k] = [v |-> [kind |-> "value", v |-> sent[k].v], e |-> NilErr]
        /\ \A j \in 1..Len(nexts) : nexts[j].e \in {NilErr, CtxErr, EOF}
        /\ (\A p \in Producers : pc[p] # "Emit_sent") => closeArg = NilErr
        /\ Len(emitted) = k => closeDone
        /\ closeDone =>
              /\ closed /\ ch = "closed" /\ closeCh = "closed" /\ err = EOF
              /\ emitted = sent
              /\ last.op = "Emit" => last.ret \in {NilErr, ErrClosedEmitter}
              /\ last.op = "CloseWithError" => last.ret = ErrClosingClosedEmitter
              /\ last.op \in {"Emit", "CloseWithError", "SetLength"}

\* A Single was emitted; Next returned its inner value and then io.EOF, and
\* a Close after it was refused.
C6_Witness ==
  /\ Len(sent) = 1 /\ sent[1].kind = "Single" /\ closeDone
  /\ nexts = << [v |-> [kind |-> "value", v |-> "s"], e |-> NilErr],
                [v |-> NoValue, e |-> EOF] >>
  /\ last = [op |-> "CloseWithError", ret |-> ErrClosingClosedEmitter]

\* C8: close(re.ch) has been executed at most once and re.err written at
\* most once, always by the holder of wl; ch is closed only with the closed
\* flag set, and the flag is set with ch still open only inside the critical
\* section that goes on to close ch.
C8_ClosedOnce ==
  /\ chCloses <= 1
  /\ errWrites.n <= 1
  /\ ~errWrites.unlocked
  /\ ch = "closed" => closed /\ chCloses = 1 /\ errWrites.n = 1
  /\ (closed /\ ch = "open") =>
        /\ wl \in Producers
        /\ pc[wl] \in {"cwe_err", "cwe_ch"}

\* A Single closed the stream from inside Emit, and a Close from a producer
\* was refused after it.
C8_Witness ==
  /\ chCloses = 1 /\ errWrites.n = 1 /\ closeDone
  /\ Len(sent) > 0 /\ sent[Len(sent)].kind = "Single"
  /\ last = [op |-> "CloseWithError", ret |-> ErrClosingClosedEmitter]

\* The structured error Error() owes for a stream closed with e.
Structured(e) ==
  IF e = NilErr \/ e = EOF THEN NilErr
  ELSE IF e.kind \in {"cmdkit.Error", "*cmdkit.Error"}
       THEN [kind |-> "*cmdkit.Error", msg |-> e.msg, code |-> e.code]
       ELSE [kind |-> "*cmdkit.Error", msg |-> e.msg, code |-> "ErrNormal"]

\* C9: Error() can always be called to completion by an idle consumer; a
\* call made before any close took effect returned nil; a call made after
\* the close returned returned nil for a close with nil or io.EOF, the
\* cmdkit error itself for a structured error, and a *cmdkit.Error carrying
\* the message for any other error; a call made during the close returned
\* one or the other.
C9_ErrorResult ==
  /\ (Running /\ cpc = "idle" /\ ccalls < MaxReads) => ENABLED Error
  /\ lastError.ret # Pending =>
        /\ ~lastError.started => lastError.ret = NilErr
        /\ lastError.done => lastError.ret = Structured(closeArg)
        /\ lastError.started => lastError.ret \in {NilErr, Structured(closeArg)}

\* Error() was called after a close with an unstructured error returned,
\* and returned a structured error with its message.
C9_Witness ==
  /\ lastError.done /\ closeArg = PlainErr
  /\ lastError.ret.kind = "*cmdkit.Error" /\ lastError.ret.msg = PlainErr.msg

\* C10: the program never panics, except in Emit's assertion that its value
\* is not an error.
C10_OnlyDeliberatePanic == crashed \in {"no", "AssertNotError"}

\* No operation on ch, waitLen or closeCh panics.
NoChannelPanic ==
  crashed \notin {"send on closed channel", "close of closed channel"}

\* An Emit or a Next is blocked with the context cancelled, or has been
\* released by the cancellation and has not returned yet.
EmitCancelledBlocked(p) ==
  ctx = "cancelled" /\ pc[p] \in {"Emit_parked", "Emit_woken", "Emit_ctxdone"}

NextCancelledBlocked ==
  /\ ctx = "cancelled"
  /\ cpc \in {"Next_woken", "Next_ctxdone"} \/ (cpc = "Next_parked" /\ ch = "open")

\* C7: an Emit that the cancellation finds blocked in its send returns the
\* cancellation error and releases wl; a Next that it finds blocked in its
\* receive returns the cancellation error, unless a panic ends the program
\* first.  (Checked under FairSpec.)
C7_CancelUnblocks ==
  /\ \A p \in Producers :
       EmitCancelledBlocked(p)
          ~> (/\ pc[p] = "idle"
              /\ wl = NoHolder
              /\ last = [op |-> "Emit", ret |-> CtxErr])
  /\ NextCancelledBlocked
          ~> (\/ /\ cpc = "idle"
                 /\ Len(nexts) > 0
                 /\ nexts[Len(nexts)] = [v |-> NoValue, e |-> CtxErr]
              \/ crashed # "no")

\* The cancellation has found an Emit parked in its send, holding wl, with
\* nothing delivered.
C7_Witness ==
  /\ ctx = "cancelled" /\ sent = <<>>
  /\ \E p \in Producers : pc[p] = "Emit_woken" /\ wl = p

\* An Emit past its closed check that has not handed its value over.
EmitWaiting(p) == pc[p] \in {"Emit_select", "Emit_parked"}

\* An Emit whose value a Next has received and that has not returned yet.
EmitHandedOver(p) ==
  \/ pc[p] = "Emit_sent"
  \/ op[p] = "Emit" /\ pc[p] \in {"cwe_closed", "cwe_err", "cwe_ch", "cwe_waitLen",
                                    "cwe_closeCh", "cwe_return"}

\* C11 as stated: in every reachable state as many Emit calls have returned
\* nil as values have been received by Next calls.
C11_CountsEqual == Len(emitted) = Len(sent)

\* C11 (amended): every Emit that returned nil had its value received by a
\* Next before; the values received are those of the Emit calls that
\* returned nil, in order, plus at most one whose Emit has not returned
\* yet; at most one Emit is past its closed check at a time; and an Emit
\* waiting with no consumer in Next and no cancellation cannot return.
C11_Backpressure ==
  /\ Len(emitted) <= Len(sent)
  /\ Len(sent) <= Len(emitted) + 1
  /\ \A k \in 1..Len(emitted) : emitted[k] = sent[k]
  /\ Len(SelectSeq(nexts, IsValueResult)) = Len(sent)
  /\ (Len(sent) = Len(emitted) + 1) <=>
        \E p \in Producers :
           EmitHandedOver(p) /\ Len(sent) > 0 /\ arg[p] = sent[Len(sent)]
  /\ Cardinality({p \in Producers : EmitWaiting(p) \/ EmitHandedOver(p)}) <= 1
  /\ last = [op |-> "Emit", ret |-> NilErr] => Len(emitted) > 0
  /\ \A p \in Producers :
        (pc[p] = "Emit_parked" /\ ctx = "live") =>
           /\ cpc # "Next_parked"
           /\ ~ENABLED EmitSent(p)
           /\ ~ENABLED EmitCtxDone(p)
           /\ ~ENABLED cweReturn(p)
           /\ ~ENABLED EmitSend(p)

\* One value was emitted and received, and the Emit of a second value is
\* parked in its send with no consumer in Next and no cancellation.
C11_Witness ==
  /\ ctx = "live" /\ cpc = "idle" /\ Len(emitted) = 1 /\ Len(sent) = 1
  /\ \E p \in Producers : pc[p] = "Emit_parked" /\ arg[p] # sent[1]

\* C12: a Length() call returns only with the first-activity signal fired,
\* which an Emit or a close that has started has done or is about to do;
\* and a Length() call that is waiting when an Emit or a close has started
\* returns (unless a panic ends the program first), also while that first
\* Emit stays blocked in its send.  (Checked under LengthSpec.)
C12_LengthWaitsForActivity ==
  /\ [][lengths' # lengths => (waitLen = "closed" /\ started)]_vars
  /\ [](cpc = "Length" /\ waitLen = "open" => ~ENABLED Length)
  /\ (cpc = "Length" /\ started) ~> (cpc = "idle" \/ crashed # "no")

\* Length() has returned while the first Emit is parked in its send, nothing
\* having been received.
C12_Witness ==
  /\ lengths # {} /\ cpc = "idle" /\ nexts = <<>> /\ sent = <<>>
  /\ closeArg = Pending /\ ctx = "live"
  /\ \E p \in Producers : pc[p] = "Emit_parked"

\* The chunks of the values the handler has emitted so far.
EmittedChunks == [k \in 1..hpos |-> EncodeValue(handler.emits[k])]

\* C13: per HTTP request, nothing of the response is written before the
\* first Emit, which commits it to streaming (status 200, trailer declared);
\* a handler that returns an error before any Emit gets a status that is not
\* 200 and a body that is the encoded error alone; one that returns an error
\* after an Emit gets status 200, the chunks emitted, and the error in the
\* trailer; and the status never changes once a chunk has been written.
\* (Checked under HttpSpec.)
C13_EarlyAndLateFailure ==
  /\ [](hstate \in {"Received", "Decoded", "Executing"} =>
          status = NoStatus /\ ~trailerDeclared /\ body = <<>> /\ hpos = 0)
  /\ [](hstate = "Streaming" =>
          /\ hpos >= 1 /\ status = StatusOK /\ trailerDeclared
          /\ body = EmittedChunks /\ trailer = NoTrailer)
  /\ []((hstate = "Closed" /\ handler.ret # NilErr /\ handler.emits = <<>>) =>
          /\ status # StatusOK /\ status # NoStatus
          /\ body \in { << ErrorBody(handler.ret) >>, << RejectBody >> }
          /\ trailer = NoTrailer)
  /\ []((hstate = "Closed" /\ handler.ret # NilErr /\ hpos >= 1) =>
          /\ status = StatusOK /\ trailerDeclared
          /\ hpos = Len(handler.emits) /\ body = EmittedChunks
          /\ trailer.sent /\ trailer.msg = handler.ret.msg /\ trailer.msg # "")
  /\ [][body # <<>> => (status' = status /\ status # NoStatus)]_vars

\* The "lateerror" command has run: status 200, its one chunk, and its error
\* in the trailer.
C13_Witness ==
  /\ hstate = "Closed" /\ handler = LateErrorHandler
  /\ status = StatusOK /\ Len(body) = 1 /\ trailer.msg = "an error occurred"

\* The k-th Next result of an in-process consumer of handler h, whose
\* stream is closed with the error h returns (C1, C2).
InProcess(h, k) ==
  IF k <= Len(h.emits)
  THEN [v |-> Unwrap(h.emits[k]), e |-> NilErr]
  ELSE [v |-> NoValue, e |-> NormalizeErr(h.ret)]

\* Two results are the same value, both the end of the stream, or errors
\* with the same message.
SameResult(r, q) ==
  /\ r.v = q.v
  /\ (r.e = NilErr) <=> (q.e = NilErr)
  /\ (r.e = EOF) <=> (q.e = EOF)
  /\ r.e.msg = q.e.msg

\* The request was rejected before the handler ran.
Rejected == hstate = "Closed" /\ body = << RejectBody >>

\* C14: over HTTP, the client of the "lateerror" command (one Emit, then an
\* error) gets the decoded value from its first Next and from every later
\* Next the error made of the trailer, with the handler's message; and for
\* every command the client's Next results are those of an in-process
\* consumer of the same handler, errors compared by message.
\* (Checked under HttpSpec.)
C14_LateErrorOverHttp ==
  ~Rejected =>
    /\ handler = LateErrorHandler =>
          \A k \in 1..Len(cnexts) :
             IF k = 1
             THEN cnexts[k] = [v |-> [kind |-> "value", v |-> "some value"], e |-> NilErr]
             ELSE /\ cnexts[k].v = NoValue
                  /\ cnexts[k].e = FromWire(trailer)
                  /\ cnexts[k].e.msg = "an error occurred"
    /\ \A k \in 1..Len(cnexts) : SameResult(cnexts[k], InProcess(handler, k))

\* The client of "lateerror" has called Next twice: the value, then the
\* error.
C14_Witness ==
  /\ handler = LateErrorHandler /\ Len(cnexts) = 2
  /\ cnexts[1].e = NilErr /\ cnexts[2].e.msg = LateErrorHandler.ret.msg

\* The arguments "3", "2", "3".
ThreeTwoThree == << <<"3">>, <<"2">>, <<"3">> >>

\* The values the Next calls returned, as strings.
Observed == [k \in 1..Len(SelectSeq(nexts, IsValueResult)) |->
               SelectSeq(nexts, IsValueResult)[k].v.v]

\* The stream has ended for the consumer: a Next returned io.EOF.
SawEOF == Len(nexts) > 0 /\ nexts[Len(nexts)] = [v |-> NoValue, e |-> EOF]

\* The strings of the Emit calls that returned nil.
EmittedStrings == [k \in 1..Len(emitted) |-> emitted[k].v]

\* C15 as stated: on the arguments "3", "2", "3", simpleAdd emits exactly
\* the three values "intermediate result: 3; 2 left", "intermediate result:
\* 5; 1 left" and "total: 8" and returns nil, and the consumer observes
\* these three values in this order and then the end of the stream.
C15_AdderThreeValues ==
  (handler = SimpleAdd(ThreeTwoThree) /\ SawEOF) =>
     /\ closeArg = NilErr
     /\ EmittedStrings = << "intermediate result: 3; 2 left",
                            "intermediate result: 5; 1 left",
                            "total: 8" >>
     /\ Observed = EmittedStrings

\* C15 (amended): on the arguments "3", "2", "3", simpleAdd emits exactly
\* the four values "intermediate result: 3; 2 left", "intermediate result:
\* 5; 1 left", "intermediate result: 8; 0 left" and "total: 8" and returns
\* nil, and the consumer observes these four values in this order and then
\* the end of the stream.  (Checked under AdderSpec.)
C15_AdderFourValues ==
  handler = SimpleAdd(ThreeTwoThree) =>
     /\ \A k \in 1..Len(Observed) :
           Observed[k] = << "intermediate result: 3; 2 left",
                            "intermediate result: 5; 1 left",
                            "intermediate result: 8; 0 left",
                            "total: 8" >>[k]
     /\ \A k \in 1..Len(nexts) : nexts[k].e \in {NilErr, EOF}
     /\ SawEOF =>
           /\ closeArg = NilErr
           /\ Len(Observed) = 4
           /\ EmittedStrings = Observed

\* simpleAdd has run on "3", "2", "3" and the consumer has seen the four
\* values and the end of the stream.
C15_Witness ==
  /\ handler = SimpleAdd(ThreeTwoThree) /\ SawEOF /\ closeDone
  /\ Len(nexts) = 5 /\ Observed[4] = "total: 8"

\* Producer p is inside Emit, between its closed check and its return.
InEmit(p) ==
  pc[p] \in {"Emit_select", "Emit_parked", "Emit_woken", "Emit_ctxdone", "Emit_sent"}

\* Producer q can start one of the methods that take the mutex.
CanStart(q) ==
  \/ ENABLED (\E v \in EmitValues : Emit(q, v))
  \/ ENABLED (\E l \in Lengths : SetLength(q, l))
  \/ ENABLED (\E e \in CloseErrors \cup {NilErr} : CloseWithError(q, e))

\* C16: a producer is inside Emit, SetLength, Close or CloseWithError
\* exactly when it holds wl, so at most one is; an Emit holds wl from its
\* closed check to its return, the time it is blocked in its send included;
\* while it does, no other producer can start any of these methods and no
\* close has taken effect; and with no consumer in Next and the context not
\* cancelled the blocked Emit cannot proceed either, so that a Close issued
\* meanwhile stays blocked.
C16_MutualExclusion ==
  /\ \A p \in Producers : (pc[p] \notin {"idle", "panicked"}) <=> (wl = p)
  /\ \A p \in Producers :
        InEmit(p) =>
           /\ wl = p
           /\ \A q \in Producers \ {p} : pc[q] = "idle" /\ ~CanStart(q)
           /\ ~closed /\ ch = "open" /\ closeCh = "open" /\ closeArg = Pending
  /\ \A p \in Producers :
        (pc[p] = "Emit_parked" /\ cpc # "Next_parked") =>
           /\ \A q \in Producers : ~CanStart(q)
           /\ ~ENABLED EmitSend(p) /\ ~ENABLED EmitSent(p) /\ ~ENABLED EmitCtxDone(p)
           /\ ~ENABLED EmitPark(p) /\ ~ENABLED EmitCancelled(p)

\* An Emit is parked in its send, holding wl, with no consumer in Next and
\* the context live, while the producers have calls left to make.
C16_Witness ==
  /\ ctx = "live" /\ cpc = "idle" /\ calls < MaxCalls /\ started
  /\ \E p \in Producers : pc[p] = "Emit_parked" /\ wl = p

\* Producer p is inside an Emit that has not handed its value over.
EmitUndelivered(p) ==
  pc[p] \in {"Emit_select", "Emit_parked", "Emit_woken", "Emit_ctxdone"}

\* What a cancelled Emit or Next must leave alone: the closed flag, the
\* terminal error, the length, the value channel, the closed signal, and
\* what has been delivered.
Frame == <<closed, err, length, ch, closeCh, sent, emitted, closeArg>>

\* C17: an Emit that returns the cancellation error has changed nothing but
\* the first-activity signal: its first step fires the signal and leaves the
\* frame, every step until its return leaves the frame and the signal, and
\* it returns the cancellation error with its value never handed over; a
\* Next that returns the cancellation error changes nothing of the stream
\* and receives no value; after a cancelled Emit a Close/CloseWithError
\* still takes effect with its own error, a SetLength leaves the length, and
\* Length() can return.  (Checked under LengthSpec.)
C17_CancelledEmitFrame ==
  [][ /\ \A p \in Producers :
           (pc[p] = "idle" /\ EmitUndelivered(p)') =>
              /\ waitLen' = "closed"
              /\ UNCHANGED Frame
      /\ \A p \in Producers :
           (EmitUndelivered(p) /\ (EmitUndelivered(p)' \/ pc'[p] = "idle")) =>
              /\ UNCHANGED Frame
              /\ UNCHANGED waitLen
              /\ Len(SelectSeq(nexts', IsValueResult)) = Len(SelectSeq(nexts, IsValueResult))
              /\ pc'[p] = "idle" =>
                    /\ last' = [op |-> "Emit", ret |-> CtxErr]
                    /\ ctx = "cancelled"
                    /\ wl' = NoHolder
      /\ last' = [op |-> "Emit", ret |-> CtxErr] =>
           (last # last' => \E p \in Producers : EmitUndelivered(p) /\ pc'[p] = "idle")
      /\ (cpc \in {"Next_ctxdone", "Next_woken"} /\ cpc' = "idle") =>
           /\ nexts' = Append(nexts, [v |-> NoValue, e |-> CtxErr])
           /\ UNCHANGED Frame
           /\ UNCHANGED <<waitLen, pc, wl>>
      /\ (Len(nexts') > Len(nexts) /\ nexts'[Len(nexts')].e = CtxErr) =>
           cpc \in {"Next_ctxdone", "Next_woken"}
      /\ (last = [op |-> "Emit", ret |-> CtxErr] /\ closeArg = Pending) =>
           /\ waitLen = "closed" /\ ~closed /\ ch = "open" /\ err = NilErr
           /\ cpc = "Length" => ENABLED Length
           /\ \A p \in Producers, e \in CloseErrors \cup {NilErr} :
                 CloseWithError(p, e) => (pc'[p] = "cwe_closed" /\ closeArg' = e)
           /\ \A p \in Producers, l \in Lengths :
                 SetLength(p, l) => length' = length
    ]_vars

\* The first Emit was cancelled and has returned the cancellation error:
\* nothing was delivered, the stream is open, and Length() has returned.
C17_Witness ==
  /\ last = [op |-> "Emit", ret |-> CtxErr] /\ calls = 1
  /\ sent = <<>> /\ ~closed /\ ch = "open" /\ waitLen = "closed"
  /\ lengths = {0}

\* The consumer can start a call.
CanRead == Running /\ cpc = "idle" /\ ccalls < ReadLimit

\* An Emit that reaches its select with the context cancelled takes the
\* cancellation: it can neither hand its value over nor park.
EmitSeesCancellation ==
  \A p \in Producers :
     (Running /\ pc[p] = "Emit_select" /\ ctx = "cancelled") =>
        /\ ENABLED EmitCancelled(p)
        /\ ~ENABLED EmitSend(p)
        /\ ~ENABLED EmitPark(p)

\* C18 as stated: an Emit that reaches its hand-off with the context
\* cancelled returns the cancellation error without delivering, and a Next
\* started after the cancellation returns the cancellation error.
C18_CancellationFirst ==
  /\ EmitSeesCancellation
  /\ (CanRead /\ ctx = "cancelled") =>
        /\ ENABLED NextCancelled
        /\ ~ENABLED NextRecv
        /\ ~ENABLED NextPark
        /\ ~ENABLED NextClosed

\* C18 (amended): an Emit that reaches its hand-off with the context
\* cancelled returns the cancellation error and its value is not delivered,
\* also when a consumer was waiting in Next; no value is handed over once
\* the context is cancelled; a Next started after the cancellation on a
\* stream that is not closed returns the cancellation error, and on a
\* closed stream it returns the cancellation error or the terminal error,
\* never a value.
C18_CancellationFirstOpen ==
  /\ EmitSeesCancellation
  /\ ctx = "cancelled" =>
        /\ ~ENABLED NextRecv
        /\ \A p \in Producers : pc[p] \notin {"Emit_parked"}
        /\ cpc # "Next_parked" \/ ch = "closed"
  /\ (CanRead /\ ctx = "cancelled") =>
        /\ ENABLED NextCancelled
        /\ ~ENABLED NextPark
        /\ ENABLED NextClosed <=> ch = "closed"
  /\ \A p \in Producers : pc[p] = "Emit_ctxdone" => ENABLED EmitCtxDone(p)

\* An Emit reached its select after the cancellation, which had found the
\* consumer waiting in Next, and took the cancellation.
C18_Witness ==
  /\ ctx = "cancelled" /\ cpc = "Next_woken" /\ sent = <<>>
  /\ \E p \in Producers : pc[p] = "Emit_ctxdone"

\* A Next call has returned the terminal error of a stream closed with an
\* error that is neither nil nor io.EOF.
SawTerminalError ==
  /\ closeArg \notin {Pending, NilErr, EOF}
  /\ \E k \in 1..Len(nexts) : nexts[k] = [v |-> NoValue, e |-> AsStored(closeArg)]

\* C19: once a Next() has returned the terminal error of a stream closed
\* with an error e that is neither nil nor io.EOF, an Error() call by the
\* consumer returns the structured form of e, in every state from which
\* the consumer can make the call.
C19_ErrorAfterTerminalNext ==
  (SawTerminalError /\ cpc = "idle") => ErrorNow = Structured(closeArg)

\* The same once the close has fired the closed signal.
ErrorAfterClosedSignal ==
  (SawTerminalError /\ cpc = "idle" /\ closeCh = "closed") =>
     ErrorNow = Structured(closeArg)

\* The closed flag, the terminal error and the channels inside and after a
\* close: ch closed implies the flag set and the error recorded; the closed
\* signal implies the first-activity signal and ch closed.
CloseOrder ==
  /\ ch = "closed" =>
        /\ closed
        /\ err # NilErr
        /\ err = Terminal(closeArg)
  /\ closeCh = "closed" => (waitLen = "closed" /\ ch = "closed")

\* Nothing that a close or the first activity has set is ever reset.
NeverReset ==
  /\ waitLen = "closed" => waitLen' = "closed"
  /\ closeCh = "closed" => closeCh' = "closed"
  /\ ch = "closed" => ch' = "closed"
  /\ closed => closed'

\* C20 as stated: the order of the close holds in every state, nothing is
\* reset, and Next never returns a nil value with a nil error.
C20_CloseInvariants ==
  /\ [](CloseOrder)
  /\ [][NeverReset]_vars
  /\ [](\A k \in 1..Len(nexts) : ~(nexts[k].v = NoValue /\ nexts[k].e = NilErr))

\* C20 (amended): the order of the close holds in every state, nothing is
\* reset, and a Next returns a nil error only with a value that was handed
\* over (nil when nil was emitted); a Next that finds ch closed returns a
\* nil value with the terminal error, which is not nil.
\* (Checked under NilSpec.)
C20_CloseInvariantsValues ==
  /\ [](CloseOrder)
  /\ [][NeverReset]_vars
  /\ [](LET vals == SelectSeq(nexts, IsValueResult)
        IN  /\ Len(vals) = Len(sent)
            /\ \A k \in 1..Len(vals) : vals[k].v = Unwrap(sent[k])
            /\ \A k \in 1..Len(nexts) :
                  nexts[k].e # NilErr =>
                     /\ nexts[k].v = NoValue
                     /\ nexts[k].e \in {CtxErr, Terminal(closeArg)})
  /\ [][(Len(nexts') > Len(nexts) /\ ch = "closed" /\ cpc' = "idle"
          /\ cpc \in {"idle", "Next_parked"}) =>
            nexts'[Len(nexts')].e # NilErr]_vars

\* A Next has returned the terminal error of a close that is still between
\* close(re.ch) and close(re.closeCh).
C20_Witness ==
  /\ ch = "closed" /\ closeCh = "open" /\ closed /\ err = PlainErr
  /\ Len(nexts) > 0 /\ nexts[Len(nexts)] = [v |-> NoValue, e |-> PlainErr]

\* A Next call made now returns at once with the terminal error: it finds
\* ch closed, and can neither park, receive a value nor take a cancellation.
NextReturnsAtOnce ==
  CanRead =>
     /\ ENABLED NextClosed
     /\ ~ENABLED NextPark
     /\ ~ENABLED NextRecv
     /\ ~ENABLED NextCancelled

\* C21 as stated: with ch closed and no cancellation, every Next call past
\* the values returns at once a nil value with io.EOF after a close with
\* nil, and with e itself after CloseWithError(e).
C21_NextAfterCloseSameError ==
  (ch = "closed" /\ ctx # "cancelled") =>
     /\ NextReturnsAtOnce
     /\ \A k \in 1..Len(nexts) :
           nexts[k] = Delivered(k, IF closeArg = NilErr THEN EOF ELSE closeArg)

\* C21 (amended): with ch closed and no cancellation, every Next call past
\* the values returns at once a nil value with the recorded terminal error,
\* the same at every call: io.EOF after a close with nil, e after
\* CloseWithError(e), and the *cmdkit.Error copy of e when e is a
\* cmdkit.Error value; it never blocks and never yields a value.
C21_NextIdempotent ==
  (ch = "closed" /\ ctx # "cancelled") =>
     /\ NextReturnsAtOnce
     /\ err = Terminal(closeArg)
     /\ \A k \in 1..Len(nexts) : nexts[k] = Delivered(k, err)
     /\ Len(SelectSeq(nexts, IsValueResult)) = Len(sent)

\* After a CloseWithError with an unstructured error, one value having been
\* received, two Next calls have both returned that error.
C21_Witness ==
  /\ closeDone /\ ctx # "cancelled" /\ closeArg = PlainErr /\ Len(sent) = 1
  /\ Len(nexts) = 3
  /\ nexts[2] = [v |-> NoValue, e |-> PlainErr] /\ nexts[3] = nexts[2]

\* On a stream with a nil Context, Next never returns a cancellation error
\* and a reader may park in Next: Next falls back to a background context.
NextOnNilContext ==
  ctx = "nil" =>
     /\ \A k \in 1..Len(nexts) : nexts[k].e # CtxErr
     /\ ~ENABLED NextCancelled
     /\ (CanRead /\ ch = "open" /\ \A p \in Producers : pc[p] # "Emit_parked")
           => ENABLED NextPark

\* C22 as stated: on a stream with a nil Context, Next falls back to a
\* background context, and Emit does as much: it does not crash on the nil
\* Context, and at its select with the consumer waiting in Next it hands
\* its value over.
C22_NilContextNeverCancels ==
  ctx = "nil" =>
     /\ NextOnNilContext
     /\ crashed # "nil Context"
     /\ \A p \in Producers :
           (pc[p] = "Emit_select" /\ cpc = "Next_parked") => ENABLED EmitSend(p)

=============================================================================
